---- MODULE Spec2Model ----
(***************************************************************************)
(* State machine of src/index.tsx: the App display state (isHandOpen,      *)
(* cameraEnabled, handPos), the GestureController (classifier load,        *)
(* webcam acquisition, capture loop, effect cleanup) and the HeartParticles *)
(* frame callback.                                                          *)
(*                                                                          *)
(* Numbers: classifier scores are in hundredths (0.5 is 50), landmark       *)
(* coordinates and the look vector are in hundredths (1.0 is 100),          *)
(* particle coordinates are in tenths of a world unit, frame deltas in      *)
(* milliseconds and the lerp jitter in hundredths.                          *)
(***************************************************************************)
EXTENDS Integers, Sequences, FiniteSets, TLC

VARIABLES
    isHandOpen,      \* App: useState(true), the isExploded flag of the scene
    cameraEnabled,   \* App: useState(false)
    handPos,         \* App: handPos.current, [x, y] in hundredths
    isLoading,       \* GestureController: useState(false)
    gestureName,     \* GestureController: useState("None")
    recognizerRef,   \* recognizerRef.current # null
    openRecognizers, \* GestureRecognizers created and not closed
    srcObject,       \* the mounted <video> has a srcObject stream
    loadedPending,   \* a loadeddata event of the mounted <video> is due
    liveStreams,     \* MediaStreams whose tracks were never stopped
    nVision,         \* init() calls awaiting FilesetResolver.forVisionTasks
    nCreate,         \* init() calls awaiting GestureRecognizer.createFromOptions
    nGum,            \* startCamera() calls awaiting getUserMedia
    latestPending,   \* the callback whose id is requestRef.current is scheduled
    othersPending,   \* scheduled predictWebcam callbacks with an older id
    types,           \* HeartParticles data: d.type of each particle
    heap,            \* the THREE.Vector3 objects: descriptor fields and scratch
    created,         \* the descriptor values assigned when data was created
                     \* and the draw rand of each particle
    instancePos,     \* the position written by setMatrixAt for each instance
    needsUpdate,     \* instanceMatrix.needsUpdate, instanceColor.needsUpdate
    instanceColor,   \* meshRef.current.instanceColor # null
    uploads,         \* the buffer operations of the last frame callback
    pointer,         \* state.pointer of the canvas, [x, y] in hundredths
    ev,              \* the last event delivered: <<kind, category, score>>
    evHand           \* landmark 9 of the last classifier result, or NoHand

ctlVars == <<isHandOpen, cameraEnabled, handPos, isLoading, gestureName,
             recognizerRef, openRecognizers, srcObject, loadedPending,
             liveStreams, nVision, nCreate, nGum, latestPending,
             othersPending>>

pVars == <<types, heap, created, instancePos, needsUpdate, instanceColor,
           uploads>>

vars == <<ctlVars, pVars, pointer, ev, evHand>>

----------------------------------------------------------------------------
(* Bounds of the model *)

\* init()/startCamera() calls that may be in flight at once
MaxInFlight == 2
\* scheduled predictWebcam callbacks besides the one in requestRef
MaxStale == 1
\* sessions may start while fewer than this many streams are still live
MaxLeak == 1
\* particles of the HeartParticles system (count in the source is 1900)
NumParticles == 1
\* a frame is taken while every coordinate of every currentPos stays
\* within [-PosMax, PosMax] tenths
PosMax == 2
\* Math.random() sequences the particle data is created from
NumSeeds == 3

----------------------------------------------------------------------------
(* Inputs at the boundary *)

\* categoryName of the top gesture (the classifier has more; one stands for
\* every category that is neither Open_Palm nor Closed_Fist)
Categories == {"Closed_Fist", "Open_Palm", "Thumb_Up"}

\* score of the top gesture, hundredths
Scores == {50, 51}

\* landmark 9 of the first hand, hundredths of the frame; a hand partly out
\* of the frame is reported with coordinates outside [0, 1]
LandmarkPoints == { [x |-> 50,  y |-> 50],
                    [x |-> 100, y |-> 0],
                    [x |-> 110, y |-> 50] }

NoGesture == [cat |-> "-", score |-> 0]
Gestures == {NoGesture} \cup [cat : Categories, score : Scores]
NoHand == [x |-> -1000, y |-> -1000]
Landmarks == {NoHand} \cup LandmarkPoints

Throws == [throws |-> TRUE, gesture |-> NoGesture, hand |-> NoHand]

\* what recognizeForVideo does: throw, or return gestures and landmarks
RecognizeResults ==
    {Throws} \cup [throws : {FALSE}, gesture : Gestures, hand : Landmarks]

\* the video is not ready (no size yet, or paused) and recognizeForVideo
\* is not called, or it is ready and recognizeForVideo does one of the above
CaptureInputs ==
    { [ready |-> FALSE, result |-> Throws] }
    \cup [ready : {TRUE}, result : RecognizeResults]

Ev(kind) == <<kind, "-", 0>>

----------------------------------------------------------------------------
(* THREE.Vector3, by its x and y components, in tenths of a world unit *)

Vec(x, y) == [x |-> x, y |-> y]

\* Vector3.add
VAdd(a, b) == Vec(a.x + b.x, a.y + b.y)

\* Vector3.sub
VSub(a, b) == Vec(a.x - b.x, a.y - b.y)

\* the integer part of a / b, b > 0
Trunc(a, b) == IF a >= 0 THEN a \div b ELSE -((-a) \div b)

\* the denominator of a lerp factor: delta is in milliseconds and the
\* jitter in hundredths
AlphaDen == 100000

\* Vector3.lerp(v, alpha): this += (v - this) * alpha, alpha = num/AlphaDen;
\* the increment is cut to whole tenths
VLerp(c, t, num) ==
    Vec(c.x + Trunc((t.x - c.x) * num, AlphaDen),
        c.y + Trunc((t.y - c.y) * num, AlphaDen))

\* the camera orientations: the initial one, and orbited half a turn
Quaternions == {"identity", "halfTurnY"}

\* Vector3.applyQuaternion: half a turn about the y axis negates x (and z)
ApplyQuaternion(v, q) == IF q = "halfTurnY" THEN Vec(-v.x, v.y) ELSE v

\* The instanced mesh sits in <group position={[0, -1, 0]}> inside the Rig
\* group; with the Rig at rest its world matrix is that translation.
MeshOrigin == Vec(0, -10)

\* Object3D.worldToLocal
WorldToLocal(v) == VSub(v, MeshOrigin)

\* squared distance of two vectors
DistSq(a, b) == (a.x - b.x) * (a.x - b.x) + (a.y - b.y) * (a.y - b.y)

----------------------------------------------------------------------------
(* HeartParticles: the particle data *)

Particles == 1 .. NumParticles

\* the Vector3 objects: the fields of each descriptor and the scratch
\* objects of the component
Home(i) == <<"home", i>>
Offset(i) == <<"offset", i>>
FixedTarget(i) == <<"fixedTarget", i>>
CurrentPos(i) == <<"currentPos", i>>
TempVec == <<"tempVec", 0>>
CamLocalPos == <<"camLocalPos", 0>>
TempWorldTarget == <<"tempWorldTarget", 0>>

DescriptorObjects ==
    UNION { {Home(i), Offset(i), FixedTarget(i)} : i \in Particles }

Objects ==
    DescriptorObjects
    \cup { CurrentPos(i) : i \in Particles }
    \cup { TempVec, CamLocalPos, TempWorldTarget }

\* const rand = Math.random(): a number of [0, 1), in thousandths
RandValues == 0 .. 999

TypeOfInclusive(rand) ==
    IF rand <= 116 THEN "front"
    ELSE IF rand <= 537 THEN "surround"
    ELSE "scatter"

\* rand < 0.116 ? 'front' : rand < 0.537 ? 'surround' : 'scatter', with
\* rand in thousandths
TypeOf(rand) ==
    IF rand < 116 THEN "front"
    ELSE IF rand < 537 THEN "surround"
    ELSE "scatter"

\* The model creates the data from Math.random() sequences that give
\* particle i the draws RandDraws and HomeDraws at place i + seed.
\* rand, in thousandths:
RandDraws == <<115, 537, 116>>

\* home positions the generator can produce (points of the stem cylinder)
HomeDraws == << Vec(0, 0), Vec(1, 2) >>

RandOf(seed, i) == RandDraws[((i + seed) % Len(RandDraws)) + 1]
HomeOf(seed, i) == HomeDraws[((i + seed) % Len(HomeDraws)) + 1]

\* the x and y of a 'front' or 'surround' offset
OffsetDraw == Vec(1, -1)

\* the x and y of a 'scatter' target: a direction times a distance, plus
\* (0, 2, 0)
FixedTargetDraw == Vec(2, -1)

\* one descriptor: offset is set for 'front' and 'surround', fixedTarget
\* for 'scatter'; the other stays new THREE.Vector3()
OffsetOf(type) == IF type = "scatter" THEN Vec(0, 0) ELSE OffsetDraw
FixedTargetOf(type) == IF type = "scatter" THEN FixedTargetDraw ELSE Vec(0, 0)

\* the heap after useMemo created data from the draws rand[i], home[i],
\* and the scratch objects were constructed; currentPos is home.clone()
CreatedHeap(rand, home) ==
    [o \in Objects |->
        IF o[1] = "home" THEN home[o[2]]
        ELSE IF o[1] = "currentPos" THEN home[o[2]]
        ELSE IF o[1] = "offset" THEN OffsetOf(TypeOf(rand[o[2]]))
        ELSE IF o[1] = "fixedTarget" THEN FixedTargetOf(TypeOf(rand[o[2]]))
        ELSE Vec(0, 0)]

DataCreated(rand, home) ==
    /\ types = [i \in Particles |-> TypeOf(rand[i])]
    /\ heap = CreatedHeap(rand, home)
    /\ created = [type |-> [i \in Particles |-> TypeOf(rand[i])],
                  vector |-> [o \in DescriptorObjects |->
                                 CreatedHeap(rand, home)[o]],
                  rand |-> rand]
    /\ instancePos = [i \in Particles |-> Vec(0, 0)]
    /\ needsUpdate = [matrix |-> FALSE, color |-> FALSE]
    /\ instanceColor = FALSE
    /\ uploads = <<>>

DataRecreated ==
    [o \in Objects |->
        IF o[1] = "currentPos" THEN heap[Home(o[2])] ELSE heap[o]]

\* useMemo(() => {...}, []): a re-render of HeartParticles keeps the data
\* created at mount
DataOnRerender == heap

\* a re-render of the scene (isHandOpen or cameraEnabled changed)
Rerender ==
    /\ heap' = DataOnRerender
    /\ UNCHANGED <<types, created, instancePos, needsUpdate, instanceColor,
                   uploads>>

----------------------------------------------------------------------------
(* App *)

InitialHandOpenGathered == FALSE

\* useState(true)
InitialHandOpen == TRUE

CtlInit ==
    /\ isHandOpen = InitialHandOpen
    /\ cameraEnabled = FALSE
    /\ handPos = [x |-> 0, y |-> 0]
    /\ isLoading = FALSE
    /\ gestureName = "None"
    /\ recognizerRef = FALSE
    /\ openRecognizers = 0
    /\ srcObject = FALSE
    /\ loadedPending = FALSE
    /\ liveStreams = 0
    /\ nVision = 0
    /\ nCreate = 0
    /\ nGum = 0
    /\ latestPending = FALSE
    /\ othersPending = 0
    /\ pointer = [x |-> 0, y |-> 0]
    /\ ev = Ev("init")
    /\ evHand = NoHand

\* the application after the first render, with one outcome of the
\* particle generator
Init ==
    /\ CtlInit
    /\ DataCreated([i \in Particles |-> RandOf(0, i)],
                   [i \in Particles |-> HomeOf(0, i)])

\* the application after the first render, for each outcome of the
\* particle generator the model draws
FrameInit ==
    /\ CtlInit
    /\ \E seed \in 0 .. NumSeeds - 1 :
           DataCreated([i \in Particles |-> RandOf(seed, i)],
                       [i \in Particles |-> HomeOf(seed, i)])

\* the application after the first render, for each value of the draw
\* rand of the first particle; the next particles get the next values
ArchetypeInit ==
    /\ CtlInit
    /\ \E r \in RandValues :
           DataCreated([i \in Particles |-> (r + i - 1) % 1000],
                       [i \in Particles |-> HomeOf(0, i)])

----------------------------------------------------------------------------
(* MagicalScene *)

HandlersAttachedAlways == TRUE

\* handlers = !cameraEnabled ? {onPointerDown, onPointerUp} : {}
HandlersAttached == ~cameraEnabled

\* positions of the pointer over the canvas, hundredths
PointerPoints == { [x |-> 0, y |-> 0], [x |-> 50, y |-> -50] }

\* The pointer moves over the canvas: state.pointer follows it. The scene
\* has no handler for it.
PointerMove ==
    /\ \E p \in PointerPoints \ {pointer} : pointer' = p
    /\ ev' = Ev("pointerMove")
    /\ evHand' = NoHand
    /\ UNCHANGED <<ctlVars, pVars>>

\* onPointerDown: () => setHandOpen(false)
PointerDown ==
    /\ Rerender
    /\ HandlersAttached
    /\ isHandOpen' = FALSE
    /\ ev' = Ev("pointerDown")
    /\ evHand' = NoHand
    /\ UNCHANGED pointer
    /\ UNCHANGED <<cameraEnabled, handPos, isLoading, gestureName,
                   recognizerRef, openRecognizers, srcObject, loadedPending,
                   liveStreams, nVision, nCreate, nGum, latestPending,
                   othersPending>>

\* onPointerUp: () => setHandOpen(true)
PointerUp ==
    /\ Rerender
    /\ HandlersAttached
    /\ isHandOpen' = TRUE
    /\ ev' = Ev("pointerUp")
    /\ evHand' = NoHand
    /\ UNCHANGED pointer
    /\ UNCHANGED <<cameraEnabled, handPos, isLoading, gestureName,
                   recognizerRef, openRecognizers, srcObject, loadedPending,
                   liveStreams, nVision, nCreate, nGum, latestPending,
                   othersPending>>

----------------------------------------------------------------------------
(* GestureController: mount, effect and cleanup *)

\* The <video ref={videoRef}> is rendered only while isCameraEnabled (the
\* component returns null otherwise), so videoRef.current is the element
\* exactly while camera mode is on.
VideoRefCurrent == cameraEnabled

\* The cleanup of useEffect(..., [isCameraEnabled]) is a passive effect: it
\* runs after the commit that unmounted the <video> and set videoRef.current
\* to null.
VideoRefAtCleanup == FALSE

\* cleanup, first statement: stop the tracks of videoRef.current.srcObject
StreamsAfterCleanup ==
    IF VideoRefAtCleanup /\ srcObject THEN liveStreams - 1 ELSE liveStreams

\* cleanup, last statement: close the recognizer in recognizerRef
RecognizersAfterCleanup ==
    IF recognizerRef THEN openRecognizers - 1 ELSE openRecognizers

\* cleanup: if (requestRef.current) cancelAnimationFrame(requestRef.current)
LatestAfterCancel == FALSE

CameraStaysEnabled ==
    UNCHANGED <<cameraEnabled, srcObject, loadedPending, liveStreams,
                latestPending, openRecognizers, recognizerRef>>

\* setCameraEnabled(false) with the re-render, the commit and the cleanup
\* it causes; nothing happens when camera mode is already off.
SetCameraEnabledFalse ==
    IF cameraEnabled
    THEN /\ cameraEnabled' = FALSE
         /\ srcObject' = FALSE
         /\ loadedPending' = FALSE
         /\ liveStreams' = StreamsAfterCleanup
         /\ latestPending' = LatestAfterCancel
         /\ openRecognizers' = RecognizersAfterCleanup
         /\ recognizerRef' = FALSE
    ELSE UNCHANGED <<cameraEnabled, srcObject, loadedPending, liveStreams,
                     latestPending, openRecognizers, recognizerRef>>

\* onClick of "Touch Mode"
ClickTouchMode ==
    /\ Rerender
    /\ SetCameraEnabledFalse
    /\ ev' = Ev("cameraOff")
    /\ evHand' = NoHand
    /\ UNCHANGED pointer
    /\ UNCHANGED <<isHandOpen, handPos, isLoading, gestureName, nVision,
                   nCreate, nGum, othersPending>>

\* onClick of "Camera Mode": setCameraEnabled(true); when the mode changes,
\* the <video> is mounted and the effect calls init(), which sets isLoading
\* and awaits FilesetResolver.forVisionTasks.
ClickCameraMode ==
    /\ Rerender
    /\ ev' = Ev("cameraOn")
    /\ evHand' = NoHand
    /\ UNCHANGED pointer
    /\ IF cameraEnabled
       THEN UNCHANGED ctlVars
       ELSE /\ nVision + nCreate + nGum < MaxInFlight
            /\ liveStreams < MaxLeak
            /\ openRecognizers < MaxLeak
            /\ cameraEnabled' = TRUE
            /\ isLoading' = TRUE
            /\ nVision' = nVision + 1
            /\ UNCHANGED <<isHandOpen, handPos, gestureName, recognizerRef,
                           openRecognizers, srcObject, loadedPending,
                           liveStreams, nCreate, nGum, latestPending,
                           othersPending>>

\* init: FilesetResolver.forVisionTasks resolved
VisionLoaded ==
    /\ UNCHANGED pVars
    /\ nVision > 0
    /\ nVision' = nVision - 1
    /\ nCreate' = nCreate + 1
    /\ ev' = Ev("visionLoaded")
    /\ evHand' = NoHand
    /\ UNCHANGED pointer
    /\ UNCHANGED <<isHandOpen, cameraEnabled, handPos, isLoading, gestureName,
                   recognizerRef, openRecognizers, srcObject, loadedPending,
                   liveStreams, nGum, latestPending, othersPending>>

\* init: FilesetResolver.forVisionTasks rejected; the catch block
VisionFailed ==
    /\ Rerender
    /\ nVision > 0
    /\ nVision' = nVision - 1
    /\ isLoading' = FALSE
    /\ SetCameraEnabledFalse
    /\ ev' = Ev("visionFailed")
    /\ evHand' = NoHand
    /\ UNCHANGED pointer
    /\ UNCHANGED <<isHandOpen, handPos, gestureName, nCreate, nGum,
                   othersPending>>

\* init: createFromOptions resolved; recognizerRef.current is overwritten
\* and startCamera() awaits getUserMedia
RecognizerCreated ==
    /\ UNCHANGED pVars
    /\ nCreate > 0
    /\ nCreate' = nCreate - 1
    /\ recognizerRef' = TRUE
    /\ openRecognizers' = openRecognizers + 1
    /\ nGum' = nGum + 1
    /\ ev' = Ev("recognizerCreated")
    /\ evHand' = NoHand
    /\ UNCHANGED pointer
    /\ UNCHANGED <<isHandOpen, cameraEnabled, handPos, isLoading, gestureName,
                   srcObject, loadedPending, liveStreams, nVision,
                   latestPending, othersPending>>

\* init: createFromOptions rejected; the catch block
CreateFailed ==
    /\ Rerender
    /\ nCreate > 0
    /\ nCreate' = nCreate - 1
    /\ isLoading' = FALSE
    /\ SetCameraEnabledFalse
    /\ ev' = Ev("createFailed")
    /\ evHand' = NoHand
    /\ UNCHANGED pointer
    /\ UNCHANGED <<isHandOpen, handPos, gestureName, nVision, nGum,
                   othersPending>>

\* startCamera: getUserMedia resolved; the stream is attached to the
\* <video> if one is mounted; finally setIsLoading(false)
StreamAcquired ==
    /\ UNCHANGED pVars
    /\ nGum > 0
    /\ nGum' = nGum - 1
    /\ liveStreams' = liveStreams + 1
    /\ IF VideoRefCurrent
       THEN srcObject' = TRUE /\ loadedPending' = TRUE
       ELSE UNCHANGED <<srcObject, loadedPending>>
    /\ isLoading' = FALSE
    /\ ev' = Ev("streamAcquired")
    /\ evHand' = NoHand
    /\ UNCHANGED pointer
    /\ UNCHANGED <<isHandOpen, cameraEnabled, handPos, gestureName,
                   recognizerRef, openRecognizers, nVision, nCreate,
                   latestPending, othersPending>>

\* startCamera: getUserMedia rejected; catch, then finally
GetUserMediaFailed ==
    /\ Rerender
    /\ nGum > 0
    /\ nGum' = nGum - 1
    /\ SetCameraEnabledFalse
    /\ isLoading' = FALSE
    /\ ev' = Ev("webcamFailed")
    /\ evHand' = NoHand
    /\ UNCHANGED pointer
    /\ UNCHANGED <<isHandOpen, handPos, gestureName, nVision, nCreate,
                   othersPending>>

----------------------------------------------------------------------------
(* GestureController: the capture loop *)

ScoreQualifiesInclusive(score) == score >= 50

\* if (score > 0.5)
ScoreQualifies(score) == score > 50

\* the top gesture calls onGesture(false) / onGesture(true)
GestureWrites(g) ==
    /\ g # NoGesture
    /\ ScoreQualifies(g.score)
    /\ g.cat \in {"Closed_Fist", "Open_Palm"}

HandOpenAfterElse(g) ==
    IF g # NoGesture /\ ScoreQualifies(g.score)
    THEN g.cat = "Open_Palm"
    ELSE isHandOpen

\* isHandOpen after the gesture branch of predictWebcam
HandOpenAfter(g) ==
    IF GestureWrites(g) THEN g.cat = "Open_Palm" ELSE isHandOpen

\* gestureName after the gesture branch of predictWebcam
GestureNameAfter(g) ==
    IF g = NoGesture THEN "None"
    ELSE IF ScoreQualifies(g.score) THEN g.cat
    ELSE gestureName

\* const x = (centerPoint.x - 0.5) * 2, in hundredths
LookCoord(c) == (c - 50) * 2

HandPosAfterWhileOpen(hand) ==
    IF hand = NoHand \/ ~HandOpenAfter(NoGesture) THEN handPos
    ELSE [x |-> LookCoord(hand.x), y |-> LookCoord(hand.y)]

\* handPos.current after the landmark branch of predictWebcam
HandPosAfter(hand) ==
    IF hand = NoHand THEN handPos
    ELSE [x |-> LookCoord(hand.x), y |-> LookCoord(hand.y)]

ScheduleNone(lp, op) ==
    /\ latestPending' = lp
    /\ othersPending' = op

\* requestRef.current = requestAnimationFrame(predictWebcam), given the
\* callbacks <<lp, op>> scheduled before the call: the callback of the
\* previous id, if still scheduled, is no longer the one in requestRef
Schedule(lp, op) ==
    /\ latestPending' = TRUE
    /\ othersPending' = IF lp THEN op + 1 ELSE op

\* if (!recognizerRef.current || !videoRef.current) return;
PredictGuardPasses == recognizerRef /\ VideoRefCurrent

\* One invocation of predictWebcam, with <<lp, op>> the callbacks left
\* scheduled when it starts, `ready` the video having a size and playing,
\* and r what recognizeForVideo does.
PredictWebcam(lp, op, ready, r) ==
    IF ~PredictGuardPasses
    THEN /\ latestPending' = lp
         /\ othersPending' = op
         /\ ev' = Ev("predictReturned")
         /\ evHand' = NoHand
         /\ UNCHANGED pointer
         /\ UNCHANGED <<isHandOpen, gestureName, handPos>>
    ELSE IF ~ready
    THEN /\ Schedule(lp, op)
         /\ ev' = Ev("predictNotReady")
         /\ evHand' = NoHand
         /\ UNCHANGED pointer
         /\ UNCHANGED <<isHandOpen, gestureName, handPos>>
    ELSE IF r.throws
    THEN /\ Schedule(lp, op)
         /\ ev' = Ev("predictThrew")
         /\ evHand' = NoHand
         /\ UNCHANGED pointer
         /\ UNCHANGED <<isHandOpen, gestureName, handPos>>
    ELSE /\ isHandOpen' = HandOpenAfter(r.gesture)
         /\ gestureName' = GestureNameAfter(r.gesture)
         /\ handPos' = HandPosAfter(r.hand)
         /\ Schedule(lp, op)
         /\ ev' = <<"predict", r.gesture.cat, r.gesture.score>>
         /\ evHand' = r.hand
         /\ UNCHANGED pointer

\* videoRef.current.onloadeddata: if (recognizerRef.current) predictWebcam()
LoadedData ==
    /\ Rerender
    /\ loadedPending
    /\ loadedPending' = FALSE
    /\ ~latestPending \/ othersPending < MaxStale
    /\ IF recognizerRef
       THEN \E in \in CaptureInputs :
                PredictWebcam(latestPending, othersPending, in.ready,
                              in.result)
       ELSE /\ ev' = Ev("loadedData")
            /\ evHand' = NoHand
            /\ UNCHANGED pointer
            /\ UNCHANGED <<isHandOpen, gestureName, handPos, latestPending,
                           othersPending>>
    /\ UNCHANGED <<cameraEnabled, isLoading, recognizerRef, openRecognizers,
                   srcObject, liveStreams, nVision, nCreate, nGum>>

\* the animation frame runs the callback whose id is in requestRef
AnimationFrame ==
    /\ Rerender
    /\ latestPending
    /\ \E in \in CaptureInputs :
           PredictWebcam(FALSE, othersPending, in.ready, in.result)
    /\ UNCHANGED <<cameraEnabled, isLoading, recognizerRef, openRecognizers,
                   srcObject, loadedPending, liveStreams, nVision, nCreate,
                   nGum>>

\* the animation frame runs a callback scheduled under an older id
StaleAnimationFrame ==
    /\ Rerender
    /\ othersPending > 0
    /\ \E in \in CaptureInputs :
           PredictWebcam(latestPending, othersPending - 1, in.ready,
                         in.result)
    /\ UNCHANGED <<cameraEnabled, isLoading, recognizerRef, openRecognizers,
                   srcObject, loadedPending, liveStreams, nVision, nCreate,
                   nGum>>

----------------------------------------------------------------------------
(* Rig *)

\* the look-around target of the Rig's frame callback, hundredths:
\* handPos.current * 3.0 in camera mode, state.pointer otherwise
LookTarget ==
    IF cameraEnabled
    THEN [x |-> handPos.x * 3, y |-> handPos.y * 3]
    ELSE pointer

----------------------------------------------------------------------------
(* HeartParticles: the frame callback *)

\* frame deltas of the scheduler, milliseconds (the clock's delta is not
\* capped: a slow frame or a resumed tab gives a long one)
Deltas == {100, 500}

\* 0.8 + Math.random() * 0.4, hundredths
Jitters == {80, 119}

\* state.camera.position and state.camera.quaternion (OrbitControls moves
\* the camera)
CameraPoses ==
    { [position |-> Vec(0, -10), quaternion |-> "identity"],
      [position |-> Vec(1, -9),  quaternion |-> "halfTurnY"] }

\* <<cos(time * 0.5 + i * 0.1) * 0.1, sin(time + i * 0.1) * 0.2>>
Oscillations == { Vec(0, 0), Vec(1, -2) }

SpeedExploded == 3
SpeedGathered == 6

\* const speed = isExploded ? 3 : 6
Speed == IF isHandOpen THEN SpeedExploded ELSE SpeedGathered

\* delta * speed * (0.8 + Math.random() * 0.4), over AlphaDen
AlphaNum(delta, jitter) == delta * Speed * jitter

\* dst.copy(src)
Copy(h, dst, src) == [h EXCEPT ![dst] = h[src]]

\* 'front': tempWorldTarget.copy(d.offset).applyQuaternion(q).add(p);
\* worldToLocal(tempWorldTarget); target.copy(tempWorldTarget)
FrontTarget(h, i, pose) ==
    LET h1 == Copy(h, TempWorldTarget, Offset(i))
        h2 == [h1 EXCEPT ![TempWorldTarget] =
                  ApplyQuaternion(h1[TempWorldTarget], pose.quaternion)]
        h3 == [h2 EXCEPT ![TempWorldTarget] =
                  VAdd(h2[TempWorldTarget], pose.position)]
        h4 == [h3 EXCEPT ![TempWorldTarget] =
                  WorldToLocal(h3[TempWorldTarget])]
    IN  [heap |-> Copy(h4, TempVec, TempWorldTarget), target |-> TempVec]

\* 'surround': target.copy(camLocalPos).add(d.offset)
SurroundTarget(h, i) ==
    LET h1 == Copy(h, TempVec, CamLocalPos)
    IN  [heap |-> [h1 EXCEPT ![TempVec] = VAdd(h1[TempVec], h1[Offset(i)])],
         target |-> TempVec]

ScatterTargetAliased(h, i) == [heap |-> h, target |-> FixedTarget(i)]

\* 'scatter': target.copy(d.fixedTarget)
ScatterTarget(h, i) ==
    [heap |-> Copy(h, TempVec, FixedTarget(i)), target |-> TempVec]

\* target.y += sin(...) * 0.2; target.x += cos(...) * 0.1
Oscillate(t, osc) ==
    [heap |-> [t.heap EXCEPT ![t.target] = VAdd(t.heap[t.target], osc)],
     target |-> t.target]

\* let target = tempVec; then the branch on isExploded and d.type
Target(h, i, pose, osc) ==
    IF isHandOpen
    THEN Oscillate(IF types[i] = "front" THEN FrontTarget(h, i, pose)
                   ELSE IF types[i] = "surround" THEN SurroundTarget(h, i)
                   ELSE ScatterTarget(h, i),
                   osc)
    ELSE [heap |-> Copy(h, TempVec, Home(i)), target |-> TempVec]

\* the body of data.forEach for particle i: the target, then
\* d.currentPos.lerp(target, ...)
ParticleStep(h, i, pose, osc, num) ==
    LET t == Target(h, i, pose, osc)
    IN  [t.heap EXCEPT ![CurrentPos(i)] =
            VLerp(t.heap[CurrentPos(i)], t.heap[t.target], num)]

\* an operation on the instance buffers of the mesh
SetMatrixAt(i) == <<"setMatrixAt", i>>
SetColorAt(i) == <<"setColorAt", i>>
MatrixNeedsUpdate == <<"instanceMatrix.needsUpdate", 0>>
ColorNeedsUpdate == <<"instanceColor.needsUpdate", 0>>

ParticleUploadsMarked(i) ==
    << SetMatrixAt(i), MatrixNeedsUpdate, SetColorAt(i) >>

\* the buffer operations of the body of data.forEach for particle i:
\* setMatrixAt(i, dummy.matrix), then setColorAt(i, tempColor)
ParticleUploads(i) == << SetMatrixAt(i), SetColorAt(i) >>

\* InstancedMesh.setColorAt creates instanceColor when it is null, so after
\* the loop it exists if it did before or the loop wrote a color
InstanceColorAfter(log) ==
    instanceColor \/ \E k \in 1 .. Len(log) : log[k][1] = "setColorAt"

\* instanceMatrix.needsUpdate = true;
\* if (instanceColor) instanceColor.needsUpdate = true
MarksAfterLoop(log) ==
    IF InstanceColorAfter(log)
    THEN << MatrixNeedsUpdate, ColorNeedsUpdate >>
    ELSE << MatrixNeedsUpdate >>

\* data.forEach((d, i) => ...) from particle i on; st is the heap, the
\* instance positions written so far and the buffer operations done so far
RECURSIVE ParticleLoop(_, _, _, _, _, _)
ParticleLoop(st, i, pose, osc, delta, jitter) ==
    IF i > NumParticles THEN st
    ELSE LET h == ParticleStep(st.heap, i, pose, osc,
                               AlphaNum(delta, jitter[i]))
         IN  ParticleLoop(
                 [heap |-> h,
                  inst |-> [st.inst EXCEPT ![i] = h[CurrentPos(i)]],
                  log |-> st.log \o ParticleUploads(i)],
                 i + 1, pose, osc, delta, jitter)

InBox(v) ==
    /\ v.x >= -PosMax /\ v.x <= PosMax
    /\ v.y >= -PosMax /\ v.y <= PosMax

\* useFrame((state, delta) => ...): camLocalPos, the loop over the
\* particles, then the two needsUpdate marks
Frame ==
    \E delta \in Deltas, pose \in CameraPoses, osc \in Oscillations,
       jitter \in [Particles -> Jitters] :
      \E st \in { ParticleLoop(
                     [heap |-> [heap EXCEPT ![CamLocalPos] =
                                   WorldToLocal(pose.position)],
                      inst |-> instancePos,
                      log |-> <<>>],
                     1, pose, osc, delta, jitter) } :
            /\ \A i \in Particles : InBox(st.heap[CurrentPos(i)])
            /\ heap' = st.heap
            /\ instancePos' = st.inst
            /\ instanceColor' = InstanceColorAfter(st.log)
            /\ uploads' = st.log \o MarksAfterLoop(st.log)
            /\ needsUpdate' = [matrix |-> TRUE,
                               color |-> InstanceColorAfter(st.log)]
            /\ ev' = Ev("frame")
            /\ evHand' = NoHand
            /\ UNCHANGED pointer
            /\ UNCHANGED <<ctlVars, types, created>>

----------------------------------------------------------------------------

Next ==
    \/ PointerMove
    \/ PointerDown
    \/ PointerUp
    \/ ClickTouchMode
    \/ ClickCameraMode
    \/ VisionLoaded
    \/ VisionFailed
    \/ RecognizerCreated
    \/ CreateFailed
    \/ StreamAcquired
    \/ GetUserMediaFailed
    \/ LoadedData
    \/ AnimationFrame
    \/ StaleAnimationFrame

Spec == Init /\ [][Next]_vars

\* the callback in requestRef runs on a ready video while the user shows an
\* Open_Palm or a Closed_Fist that the classifier scores above 0.5
QualifyingCapture ==
    /\ AnimationFrame
    /\ ev'[1] = "predict"
    /\ ev'[2] \in {"Open_Palm", "Closed_Fist"}
    /\ ScoreQualifies(ev'[3])

\* The browser runs a callback given to requestAnimationFrame, and the user
\* goes on showing gestures to the camera: a capture that stays possible is
\* eventually taken with a qualifying gesture in view.
LiveSpec == Spec /\ WF_vars(QualifyingCapture)

\* the scene in touch mode: pointer presses and releases, and frames
FrameNext ==
    \/ PointerDown
    \/ PointerUp
    \/ Frame

FrameSpec == FrameInit /\ [][FrameNext]_vars

\* the particle data under re-renders of the scene, for every draw rand
ArchetypeNext ==
    \/ PointerDown
    \/ PointerUp

ArchetypeSpec == ArchetypeInit /\ [][ArchetypeNext]_vars

----------------------------------------------------------------------------
(* Claims about the display-state controller *)

InFlight == nVision + nCreate + nGum

FaultKinds == {"visionFailed", "createFailed", "webcamFailed"}
PredictKinds == {"predict", "predictThrew", "predictNotReady",
                 "predictReturned"}

\* the event ev is a classifier result with the given top category and a
\* score above 0.5
Qualifying(e, cat) == e[1] = "predict" /\ e[2] = cat /\ e[3] > 50

\* C1 (as stated): before any pointer or gesture event has been delivered,
\* isHandOpen is false (the machine starts in Gathered).
C1_StartsGathered == ev[1] = "init" => isHandOpen = FALSE

\* C1 (amended): before any pointer or gesture event has been delivered,
\* isHandOpen is true (the machine starts in Exploded) and camera mode is
\* off.
C1_StartsExploded == ev[1] = "init" => isHandOpen = TRUE /\ ~cameraEnabled

C1_Witness == ev[1] = "init" /\ isHandOpen /\ ~cameraEnabled /\ ~isLoading

\* C2: once camera mode is off and every asynchronous step of init and
\* startCamera has completed, no stream track is running, no recognizer is
\* left unclosed and no predictWebcam callback is scheduled.
C2_ResourcesReleased ==
    (~cameraEnabled /\ InFlight = 0) =>
        /\ liveStreams = 0
        /\ openRecognizers = 0
        /\ ~latestPending
        /\ othersPending = 0

\* C3: a pointer handler writes the display state only while cameraEnabled
\* is false, and predictWebcam gets past its guard (and so may call
\* onGesture / onHandMove) only while cameraEnabled is true; a capture
\* callback that runs with camera mode off writes nothing.
C3_SingleProducer ==
    [][ /\ ev'[1] \in {"pointerDown", "pointerUp"} => ~cameraEnabled
        /\ ev'[1] \in {"predict", "predictThrew", "predictNotReady"}
               => cameraEnabled /\ cameraEnabled'
        /\ (ev'[1] \in PredictKinds /\ ~cameraEnabled)
               => isHandOpen' = isHandOpen /\ handPos' = handPos
      ]_vars

C3_Witness == ev[1] = "predictReturned" /\ ~cameraEnabled /\ liveStreams > 0

\* C4: a pointer release sets isHandOpen, a pointer press clears it, an
\* Open_Palm result with score > 0.5 sets it, a Closed_Fist result with
\* score > 0.5 clears it, and no other event changes it.
C4_TransitionsOnTriggers ==
    [][ /\ ev'[1] = "pointerUp" => isHandOpen' = TRUE
        /\ ev'[1] = "pointerDown" => isHandOpen' = FALSE
        /\ Qualifying(ev', "Open_Palm") => isHandOpen' = TRUE
        /\ Qualifying(ev', "Closed_Fist") => isHandOpen' = FALSE
        /\ isHandOpen' # isHandOpen =>
              \/ ev'[1] \in {"pointerUp", "pointerDown"}
              \/ Qualifying(ev', "Open_Palm")
              \/ Qualifying(ev', "Closed_Fist")
      ]_vars

C4_Witness == Qualifying(ev, "Closed_Fist") /\ ~isHandOpen /\ cameraEnabled

\* C5: a capture callback whose result has no gesture, or a top category
\* other than Open_Palm and Closed_Fist, or a score <= 0.5, leaves
\* isHandOpen as it was.
C5_StickyUnderNoise ==
    [][ ( /\ ev'[1] \in PredictKinds
          /\ ~Qualifying(ev', "Open_Palm")
          /\ ~Qualifying(ev', "Closed_Fist") )
        => isHandOpen' = isHandOpen ]_vars

C5_Witness == ev = <<"predict", "Open_Palm", 50>> /\ ~isHandOpen

\* C6: the step that handles a failed classifier load or a failed
\* getUserMedia ends with cameraEnabled false, the pointer handlers
\* attached and isLoading false, and leaves isHandOpen unchanged.
C6_FaultFallsBack ==
    [][ ev'[1] \in FaultKinds =>
            /\ cameraEnabled' = FALSE
            /\ HandlersAttached'
            /\ isLoading' = FALSE
            /\ isHandOpen' = isHandOpen ]_vars

C6_Witness ==
    /\ ev[1] = "webcamFailed"
    /\ ~cameraEnabled
    /\ ~isLoading
    /\ ~recognizerRef

\* C10: the look vector stored by onHandMove has both components in
\* [-1, 1].
C10_LookVectorInRange ==
    /\ handPos.x >= -100 /\ handPos.x <= 100
    /\ handPos.y >= -100 /\ handPos.y <= 100

\* C12: a look-vector update leaves isHandOpen unchanged (a pointer move,
\* and a capture callback whose gesture does not qualify, whatever it does
\* to handPos); an isHandOpen transition leaves the look vector unchanged
\* (a pointer press or release changes neither handPos nor the pointer nor
\* the Rig's target, and a capture callback without landmarks leaves
\* handPos alone, whatever its gesture); and a capture callback with
\* landmarks stores the look vector of landmark 9, whatever its gesture.
C12_LookIndependentOfState ==
    [][ /\ ev'[1] = "pointerMove" => isHandOpen' = isHandOpen
        /\ ( /\ ev'[1] = "predict"
             /\ ~Qualifying(ev', "Open_Palm")
             /\ ~Qualifying(ev', "Closed_Fist") )
               => isHandOpen' = isHandOpen
        /\ ev'[1] \in {"pointerDown", "pointerUp"}
               => handPos' = handPos /\ pointer' = pointer
                  /\ LookTarget' = LookTarget
        /\ (ev'[1] = "predict" /\ evHand' = NoHand) => handPos' = handPos
        /\ (ev'[1] = "predict" /\ evHand' # NoHand)
               => handPos' = [x |-> LookCoord(evHand'.x),
                              y |-> LookCoord(evHand'.y)]
      ]_vars

\* a capture callback with a Thumb_Up gesture and landmarks moved the look
\* vector while the scene stayed gathered
C12_Witness ==
    /\ ev = <<"predict", "Thumb_Up", 51>>
    /\ evHand = [x |-> 100, y |-> 0]
    /\ handPos = [x |-> 100, y |-> -100]
    /\ ~isHandOpen
    /\ pointer # [x |-> 0, y |-> 0]

\* predictWebcam callbacks scheduled with requestAnimationFrame
PendingCount == othersPending + (IF latestPending THEN 1 ELSE 0)

\* the last event is an invocation of predictWebcam that got past the
\* initial guard and delivered no qualifying gesture
PassedWithoutGesture ==
    /\ ev[1] \in {"predict", "predictThrew", "predictNotReady"}
    /\ ~Qualifying(ev, "Open_Palm")
    /\ ~Qualifying(ev, "Closed_Fist")

\* the last event delivered a qualifying gesture to onGesture
GestureDelivered ==
    Qualifying(ev, "Open_Palm") \/ Qualifying(ev, "Closed_Fist")

\* C14: an invocation of predictWebcam that gets past the initial guard
\* schedules exactly one next invocation and stores its id in requestRef,
\* also when the video is not ready and when recognizeForVideo throws (the
\* scheduled callbacks stay as many when the invocation was one of them,
\* and become one more when onloadeddata called it); and after such an
\* invocation, unless camera mode is switched off, a qualifying gesture is
\* eventually delivered to onGesture.
C14_CaptureLoopKeepsRunning ==
    /\ [][ ev'[1] \in {"predict", "predictThrew", "predictNotReady"} =>
               /\ latestPending'
               /\ PendingCount' =
                      PendingCount + (IF loadedPending /\ ~loadedPending'
                                      THEN 1 ELSE 0) ]_vars
    /\ PassedWithoutGesture ~> (~cameraEnabled \/ GestureDelivered)

\* recognizeForVideo threw in a running session and the next invocation
\* is scheduled
C14_Witness ==
    /\ ev[1] = "predictThrew"
    /\ cameraEnabled
    /\ recognizerRef
    /\ latestPending

----------------------------------------------------------------------------
(* Claims about the particle system *)

\* some particle is away from its home
AwayFromHome == \E i \in Particles : heap[CurrentPos(i)] # heap[Home(i)]

\* C7: a change of isHandOpen leaves every currentPos as it was, and
\* currentPos is changed by the frame callback only.
C7_ToggleKeepsPosition ==
    [][ /\ isHandOpen' # isHandOpen =>
               \A i \in Particles :
                   heap'[CurrentPos(i)] = heap[CurrentPos(i)]
        /\ (\E i \in Particles : heap'[CurrentPos(i)] # heap[CurrentPos(i)])
               => ev'[1] = "frame"
      ]_vars

C7_Witness == ev[1] = "pointerDown" /\ ~isHandOpen /\ AwayFromHome

\* C8: every particle's type, home, offset and fixedTarget keep the values
\* assigned at creation, whatever frames and toggles have happened.
C8_DescriptorsImmutable ==
    /\ types = created.type
    /\ \A o \in DescriptorObjects : heap[o] = created.vector[o]

C8_Witness ==
    /\ ev[1] = "frame"
    /\ isHandOpen
    /\ \E i \in Particles :
           types[i] = "scatter" /\ heap[CurrentPos(i)] # heap[Home(i)]

\* C9: while isHandOpen is false, whatever delta the frame has, the
\* distance of a particle to its home, once below an epsilon, stays below
\* it (so the particle converges to home and stays there).
C9_GatheredConverges ==
    [][ (ev'[1] = "frame" /\ ~isHandOpen) =>
            \A i \in Particles : \A eps \in 1 .. 2 * PosMax + 1 :
                DistSq(heap[CurrentPos(i)], heap[Home(i)]) < eps * eps
                => DistSq(heap'[CurrentPos(i)], heap'[Home(i)]) < eps * eps
      ]_vars

\* the places of the last frame's buffer operations that are writes of an
\* instance (setMatrixAt, setColorAt), and those that are dirty marks
WritePlaces ==
    { k \in 1 .. Len(uploads) : uploads[k][1] \in {"setMatrixAt", "setColorAt"} }
MarkPlaces(mark) == { k \in 1 .. Len(uploads) : uploads[k] = mark }

C13_ArchetypePartition ==
    \A i \in Particles :
        /\ created.rand[i] \in RandValues
        /\ Cardinality({ t \in {"front", "surround", "scatter"} :
                             types[i] = t }) = 1
        /\ types[i] = "front" <=> created.rand[i] < 116
        /\ types[i] = "surround" <=>
               (116 <= created.rand[i] /\ created.rand[i] < 537)
        /\ types[i] = "scatter" <=>
               (537 <= created.rand[i] /\ created.rand[i] < 1000)

\* the draw 0.116 itself made a 'surround' particle, and the scene was
\* re-rendered since
C13_Witness ==
    /\ ev[1] = "pointerDown"
    /\ \E i \in Particles : created.rand[i] = 116 /\ types[i] = "surround"

====
